---------------------------- MODULE Spec2Model ----------------------------
(***************************************************************************)
(* Model of the BBB business-directory scraper: the phone normaliser, the  *)
(* listing-card extractor and the four crawl pipelines                     *)
(*   bbb   : src/scraper/bbb_scraper.py          scrape_bbb                *)
(*   txt   : src/scraper/txt.py                  scrape_bbb                *)
(*   crawl : src/scraper/crawl4ai_bbb_scraper.py main                      *)
(*   stage : src/scraper/stagehand.py            _scrape                   *)
(*                                                                         *)
(* Text is a sequence of characters (one-character strings; a word that no *)
(* operation looks into is kept as one element), so that stripping, digit  *)
(* filtering, camel-case splitting and prefixing are computed.  A URL is a *)
(* sequence of tokens (origin, rooted path, bare segment).                 *)
(*                                                                         *)
(* The environment decides, per request, whether a list page or a detail   *)
(* page loads, is a bot-detection page, lacks the expected content, or     *)
(* fails (navigation error, timeout).  Opening and closing a browser page  *)
(* (new_page, close) and the delays are local and taken to succeed; the    *)
(* model starts after the browser has been set up.  The page range         *)
(* range(1, 16) is cut to 1..MaxPage.  The length of a pacing sleep is     *)
(* drawn at each step that sleeps.  SpecRerun runs txt.scrape_bbb twice    *)
(* against a site that is fixed at the start.                              *)
(***************************************************************************)
EXTENDS Integers, Sequences, FiniteSets, TLC

VARIABLES
    raw,          \* normalize_phone: the argument
    out,          \* normalize_phone: the returned value
    page_cards,   \* extract_business_cards: the entry nodes of the page
    data,         \* extract_business_cards: the returned list
    call,         \* the pure-function specifications: "none", "pending", "returned"
    variant,      \* which pipeline runs: "bbb", "txt", "crawl", "stage"
    pass,         \* bbb: which of the two copies of the crawl body is running
    pc,           \* position of the pipeline
    page_num,     \* the list page the range loop is at
    cards_data,   \* bbb, txt: the entries extracted from the current list page
    idx,          \* position of the loop over cards_data / listings / unique
    seen,         \* bbb, txt: the set of (name, phone) keys already recorded
    results,      \* the result collection (results / final / entries)
    listings,     \* crawl, stage: the raw items of all list pages
    unique,       \* crawl, stage: the insertion-ordered dict of candidates
    file,         \* the rows of the output file, header first; <<>> while absent
    writes,       \* how many times the output file was opened for writing
    details_open, \* bbb, txt: detail pages opened and not closed
    attempted,    \* history: page numbers whose fetch was started in this crawl
    skipped,      \* history: page numbers that ended blocked or failed
    failed,       \* history: keys of the candidates whose detail fetch or parse failed
    firstSeen,    \* history: [key, url] of the first entry met for each key, in order
    fetch_log,    \* history: the page numbers fetched by this invocation, in order
    delay,        \* the seconds of the last pacing sleep
    site,         \* the re-run specification: what each page and profile URL serves
    run,          \* the re-run specification: which invocation is running
    first_file    \* the re-run specification: the file the first invocation wrote

(***************************************************************************)
(* Bounds of the model.                                                    *)
(***************************************************************************)
MaxDigits == 11
MaxJunk == 1
MaxCards == 2
MaxPage == 2

\* time.sleep(1) after each record of bbb
PoliteDelay == 1

(***************************************************************************)
(* Text.                                                                   *)
(***************************************************************************)
None == <<"<None>">>

DigitChars == {"0", "1", "2", "3", "4", "5", "6", "7", "8", "9"}
SpaceChars == {" "}
LowerChars == {"a", "c", "m", "e", "o"}
UpperChars == {"A", "B", "M", "C"}
JunkChars == {"-", " "}

\* the i-th digit of the digit run used to build phone inputs
DigitAt(i) == <<"1", "2", "3", "4", "5", "6", "7", "8", "9", "0">>[((i - 1) % 10) + 1]

DigitRun(n) == [i \in 1..n |-> DigitAt(i)]

RECURSIVE SeqsUpTo(_, _)
SeqsUpTo(S, n) ==
    IF n = 0 THEN {<<>>}
    ELSE LET shorter == SeqsUpTo(S, n - 1)
         IN  shorter \cup {Append(s, c) : s \in shorter, c \in S}

\* re.sub(r"\D", "", raw): every character that is not a digit is deleted
RECURSIVE re_sub_nondigits(_)
re_sub_nondigits(s) ==
    IF s = <<>> THEN <<>>
    ELSE IF Head(s) \in DigitChars
         THEN <<Head(s)>> \o re_sub_nondigits(Tail(s))
         ELSE re_sub_nondigits(Tail(s))

NationalLen == 10

normalize_phone_always_plus(r) ==
    LET digits == re_sub_nondigits(r)
    IN  IF Len(digits) = NationalLen THEN <<"+", "1">> \o digits
        ELSE <<"+">> \o digits

normalize_phone(r) ==
    LET digits == re_sub_nondigits(r)
    IN  IF Len(digits) = NationalLen THEN <<"+", "1">> \o digits
        ELSE IF digits # <<>> THEN <<"+">> \o digits ELSE <<>>

\* str.strip(): leading and trailing whitespace removed
RECURSIVE lstrip(_)
lstrip(s) ==
    IF s # <<>> /\ Head(s) \in SpaceChars THEN lstrip(Tail(s)) ELSE s

RECURSIVE rstrip(_)
rstrip(s) ==
    IF s # <<>> /\ s[Len(s)] \in SpaceChars
    THEN rstrip([i \in 1..(Len(s) - 1) |-> s[i]]) ELSE s

strip(s) == rstrip(lstrip(s))

(***************************************************************************)
(* URLs.                                                                   *)
(***************************************************************************)
Origins == {"https://www.bbb.org", "https://www.example.org"}
RootedPaths == {"/profile/1", "/profile/2", "/profile/3"}
BASE == <<"https://www.bbb.org">>

\* urllib.parse.urljoin(base, rel) for a base that is a bare origin
urljoin(base, rel) ==
    IF rel = <<>> \/ rel = None THEN base
    ELSE IF rel[1] \in Origins THEN rel
    ELSE IF rel[1] \in RootedPaths THEN <<base[1]>> \o rel
    ELSE <<base[1], "/">> \o rel

(***************************************************************************)
(* Listing cards.  A card node has an optional name heading (and, inside   *)
(* it, an optional profile link), an optional tel: link and an optional    *)
(* accreditation badge image.                                              *)
(***************************************************************************)
Card(n, p, h, b) == [name_el |-> n, phone_el |-> p, href |-> h, badge |-> b]

T_Acme == <<"A", "c", "m", "e">>
T_AcmePadded == <<" ", "A", "c", "m", "e", " ">>
T_Phone10 == <<"(", "5", "5", "5", ")", " ", "1", "2", "3", "-", "4", "5", "6", "7">>
T_Phone7 == <<"1", "2", "3", "-", "4", "5", "6", "7">>

AllCards ==
    {Card(n, p, h, b) :
        n \in {T_AcmePadded}, p \in {None, T_Phone10, T_Phone7},
        h \in {None, <<"/profile/1">>, <<"https://www.example.org", "/profile/2">>},
        b \in BOOLEAN}
    \cup {Card(None, p, None, b) : p \in {None, T_Phone10}, b \in BOOLEAN}

Entry(n, p, u, a) == [name |-> n, phone |-> p, url |-> u, accreditation |-> a]

\* the body of the loop of extract_business_cards, for one card
extract_card(card) ==
    LET name == IF card.name_el # None THEN strip(card.name_el) ELSE <<>>
        phone_raw == IF card.phone_el # None THEN strip(card.phone_el) ELSE <<>>
        rel == IF card.name_el # None /\ card.href # None THEN card.href ELSE <<>>
    IN  Entry(name, normalize_phone(phone_raw), urljoin(BASE, rel),
              IF card.badge THEN "Accredited" ELSE "Not Accredited")

RECURSIVE extract_skipping_unnamed(_)
extract_skipping_unnamed(cards) ==
    IF cards = <<>> THEN <<>>
    ELSE IF Head(cards).name_el = None THEN extract_skipping_unnamed(Tail(cards))
         ELSE <<extract_card(Head(cards))>> \o extract_skipping_unnamed(Tail(cards))

RECURSIVE extract_business_cards(_)
extract_business_cards(cards) ==
    IF cards = <<>> THEN <<>>
    ELSE <<extract_card(Head(cards))>> \o extract_business_cards(Tail(cards))

(***************************************************************************)
(* What the site serves.  The listing cards the pipelines meet: N1 and N2  *)
(* are the same business (same name and phone once normalised) under two   *)
(* profile paths, N3 is a card without heading and link.                   *)
(***************************************************************************)
T_Phone10b == <<"5", "5", "5", "-", "1", "2", "3", "-", "4", "5", "6", "7">>

N1 == Card(<<" ", "A", "c", "m", "e", "B">>, T_Phone10, <<"/profile/1">>, TRUE)
N2 == Card(<<"A", "c", "m", "e", "B", " ">>, T_Phone10b, <<"/profile/2">>, FALSE)
N3 == Card(None, T_Phone7, None, FALSE)
ListingCards == {N1, N2, N3}

\* a list page shows each card at most once, at most MaxCards of them
ListPages ==
    {cs \in SeqsUpTo(ListingCards, MaxCards) :
        \A i, j \in 1..Len(cs) : i # j => cs[i] # cs[j]}

ListFailures == {"nav_fail", "blocked", "no_content"}

\* a detail page: the labelled fields, the badge, the address paragraphs
D_full ==
    [dl |-> << [dt |-> <<"Hours">>, dd |-> <<"9-5">>],
               [dt |-> <<" ", "Principal Contacts", " ">>, dd |-> <<" ", "Pat", " ">>] >>,
     badge |-> TRUE,
     addr |-> << <<" ", "1 Main St">>, <<" ">>, <<"Town", " ">> >>]
D_bare == [dl |-> <<>>, badge |-> FALSE, addr |-> None]
DetailPages == {D_full, D_bare}

DetailFailures == {"nav_fail", "no_main"}

(***************************************************************************)
(* Detail enrichment of bbb and txt.                                       *)
(***************************************************************************)
RECURSIVE get_principal_contact(_)
get_principal_contact(dl) ==
    IF dl = <<>> THEN <<>>
    ELSE IF Head(dl).dt # None /\ strip(Head(dl).dt) = <<"Principal Contacts">>
         THEN IF Head(dl).dd # None THEN strip(Head(dl).dd) ELSE <<>>
         ELSE get_principal_contact(Tail(dl))

\* " ".join(lines)
RECURSIVE join(_)
join(lines) ==
    IF lines = <<>> THEN <<>>
    ELSE IF Len(lines) = 1 THEN lines[1]
    ELSE lines[1] \o <<" ">> \o join(Tail(lines))

\* [p.inner_text().strip() for p in ps if p.inner_text().strip()]
RECURSIVE stripped_lines(_)
stripped_lines(ps) ==
    IF ps = <<>> THEN <<>>
    ELSE IF strip(Head(ps)) # <<>>
         THEN <<strip(Head(ps))>> \o stripped_lines(Tail(ps))
         ELSE stripped_lines(Tail(ps))

Record(n, p, c, u, ad, ac) ==
    [name |-> n, phone |-> p, principal_contact |-> c, url |-> u,
     address |-> ad, accreditation |-> ac]

\* the try block of the detail scrape
enrich_parsed(entry, d) ==
    Record(entry.name, entry.phone, get_principal_contact(d.dl), entry.url,
           IF d.addr # None THEN join(stripped_lines(d.addr)) ELSE <<>>,
           IF d.badge THEN "Accredited" ELSE "Not Accredited")

enrich_failed_blank_url(entry) ==
    Record(entry.name, entry.phone, <<>>, BASE, <<>>, "Unknown")

\* the except block of the detail scrape
enrich_failed(entry) ==
    Record(entry.name, entry.phone, <<>>, entry.url, <<>>, "Unknown")

Key(r) == <<r.name, r.phone>>

AppendResult_unless_unknown(rs, r) ==
    IF r.accreditation = "Unknown" THEN rs ELSE Append(rs, r)

AppendResult_in_front(rs, r) == <<r>> \o rs

\* results.append(entry)
AppendResult(rs, r) == Append(rs, r)

IsDuplicate_never(key, s) == FALSE

\* key in seen
IsDuplicate(key, s) == key \in s

(***************************************************************************)
(* Dedupe and enrichment of crawl and stage.                               *)
(***************************************************************************)
\* re.sub(r"(?<=[a-z])(?=[A-Z])", " ", raw)
RECURSIVE camel_split(_)
camel_split(s) ==
    IF Len(s) < 2 THEN s
    ELSE IF s[1] \in LowerChars /\ s[2] \in UpperChars
         THEN <<s[1], " ">> \o camel_split(Tail(s))
         ELSE <<s[1]>> \o camel_split(Tail(s))

Get(v, default) == IF v = None THEN default ELSE v

\* stagehand.py: the inline phone computation
stage_phone(r) ==
    LET ph == re_sub_nondigits(r)
    IN  IF Len(ph) = NationalLen THEN <<"+", "1">> \o ph ELSE ph

\* itm.get("profile", "\u00df") in crawl ("sharp-s" stands for that one character),
\* itm.get("profile", "") in stage
DefaultProfile(v) == IF v = "crawl" THEN <<"sharp-s">> ELSE <<>>

\* the candidate built from one raw item by step 2 of crawl and stage
Candidate(v, itm) ==
    [name |-> strip(camel_split(Get(itm.name_el, <<>>))),
     phone |-> IF v = "crawl" THEN normalize_phone(Get(itm.phone_el, <<>>))
               ELSE stage_phone(Get(itm.phone_el, <<>>)),
     profile |-> IF itm.name_el # None THEN Get(itm.href, DefaultProfile(v))
                 ELSE DefaultProfile(v)]

HasKey(u, key) == \E i \in 1..Len(u) : Key(u[i]) = key

\* what the detail extraction strategy yields for a page with a main element
DetailDict(d) ==
    [principal_contact |-> IF get_principal_contact(d.dl) # <<>>
                           THEN get_principal_contact(d.dl) ELSE None,
     accredited |-> d.badge,
     address |-> IF d.addr # None /\ stripped_lines(d.addr) # <<>>
                 THEN stripped_lines(d.addr)[1] ELSE None]

EmptyDict == [principal_contact |-> None, accredited |-> FALSE, address |-> None]

\* the record step 3 of crawl and stage builds from the first detail item
merge_detail(cand, d) ==
    Record(cand.name, cand.phone, Get(d.principal_contact, <<>>),
           urljoin(BASE, cand.profile), Get(d.address, <<>>),
           IF d.accredited THEN "Accredited" ELSE "Not Accredited")

(***************************************************************************)
(* Output.                                                                 *)
(***************************************************************************)
Header == << <<"name">>, <<"phone">>, <<"principal_contact">>, <<"url">>,
             <<"address">>, "accreditation" >>

Row(r) == <<r.name, r.phone, r.principal_contact, r.url, r.address, r.accreditation>>

csv_rows(rs) == <<Header>> \o [i \in 1..Len(rs) |-> Row(rs[i])]

(***************************************************************************)
(* The pipelines.                                                          *)
(***************************************************************************)
Interleaved == {"bbb", "txt"}
Batch == {"crawl", "stage"}
Variants == Interleaved \cup Batch

phoneVars == <<raw, out>>
extractVars == <<page_cards, data>>
\* what no step of a pipeline changes
pureVars == <<raw, out, page_cards, data, call, site, run, first_file>>
histVars == <<attempted, skipped, failed, firstSeen, fetch_log>>
pipeVars == <<variant, pass, pc, page_num, cards_data, idx, seen, results, listings,
              unique, file, writes, details_open, attempted, skipped, failed, firstSeen,
              fetch_log, delay, site, run, first_file>>
vars == <<raw, out, page_cards, data, call, variant, pass, pc, page_num, cards_data,
          idx, seen, results, listings, unique, file, writes, details_open,
          attempted, skipped, failed, firstSeen, fetch_log, delay, site, run,
          first_file>>

PhoneIdle == raw = <<>> /\ out = <<>>
ExtractIdle == page_cards = <<>> /\ data = <<>>

CrawlStart ==
    /\ pc = "list" /\ page_num = 1
    /\ cards_data = <<>> /\ idx = 1
    /\ seen = {} /\ results = <<>>
    /\ listings = <<>> /\ unique = <<>>
    /\ details_open = 0
    /\ attempted = {} /\ skipped = {} /\ failed = {} /\ firstSeen = <<>>

RerunIdle == site = <<>> /\ run = 1 /\ first_file = <<>>

PipelineIdle ==
    /\ variant = "none" /\ pass = 1 /\ CrawlStart /\ file = <<>> /\ writes = 0
    /\ fetch_log = <<>> /\ delay = 0 /\ RerunIdle

Init ==
    /\ variant \in Variants
    /\ pass = 1
    /\ CrawlStart
    /\ file = <<>> /\ writes = 0
    /\ fetch_log = <<>> /\ delay = 0 /\ RerunIdle
    /\ PhoneIdle /\ ExtractIdle /\ call = "none"

\* random_delay() sleeps random.uniform(2, 5) seconds, the end of a list page in
\* txt random.uniform(3, 7); the ends of each range stand for it
RandomDelay == {2, 5}
PageDelay == {3, 7}

\* the sleeps of one step of bbb or txt: after a record (afterRecord), and in
\* txt at the end of the page when entry n is past the last one
Pace(afterRecord, n, cd) ==
    IF variant = "txt"
    THEN IF n > Len(cd) THEN PageDelay
         ELSE IF afterRecord THEN RandomDelay ELSE {delay}
    ELSE IF afterRecord THEN {PoliteDelay} ELSE {delay}

\* detail = browser.new_page()
OpenPage(n) == n + 1

ClosePage_leaked(n) == n

\* finally: detail.close()
ClosePage(n) == n - 1

\* history: the first entry met for a key is noted with its URL; a later entry
\* with the same key and another URL marks it as met again (dup)
NoteFirstSeen(key, url) ==
    firstSeen' = IF \E i \in 1..Len(firstSeen) : firstSeen[i].key = key
                 THEN [i \in 1..Len(firstSeen) |->
                          IF firstSeen[i].key = key /\ firstSeen[i].url # url
                          THEN [firstSeen[i] EXCEPT !.dup = TRUE]
                          ELSE firstSeen[i]]
                 ELSE Append(firstSeen, [key |-> key, url |-> url, dup |-> FALSE])

\* the two for loops of bbb and txt move on to entry n of the page, or past the page
Advance(n, cd) ==
    /\ idx' = n
    /\ IF n <= Len(cd)
       THEN pc' = "entry" /\ page_num' = page_num
       ELSE /\ page_num' = page_num + 1
            /\ pc' = IF page_num = MaxPage THEN "write" ELSE "list"

\* bbb, txt: the list page did not yield listings (navigation error or timeout,
\* bot-detection page, none of the expected selectors)
ListPageFails(kind) ==
    /\ variant \in Interleaved /\ pc = "list"
    /\ attempted' = attempted \cup {page_num}
    /\ skipped' = skipped \cup {page_num}
    /\ fetch_log' = Append(fetch_log, page_num)
    /\ IF variant = "txt"
       THEN /\ page_num' = page_num + 1
            /\ pc' = IF page_num = MaxPage THEN "write" ELSE "list"
            /\ delay' \in IF kind = "blocked" THEN RandomDelay ELSE {delay}
       ELSE pc' = "aborted_list" /\ page_num' = page_num /\ delay' = delay
    /\ UNCHANGED <<pureVars, variant, pass, cards_data, idx, seen, results, listings,
                   unique, file, writes, details_open, failed, firstSeen>>

\* bbb, txt: the list page loaded and its cards are extracted
ListPageParsed(cards) ==
    /\ variant \in Interleaved /\ pc = "list"
    /\ attempted' = attempted \cup {page_num}
    /\ fetch_log' = Append(fetch_log, page_num)
    /\ cards_data' = extract_business_cards(cards)
    /\ Advance(1, cards_data')
    /\ delay' \in Pace(FALSE, 1, cards_data')
    /\ UNCHANGED <<pureVars, variant, pass, seen, results, listings, unique, file,
                   writes, details_open, skipped, failed, firstSeen>>

\* bbb, txt: the dedup test of one entry; a new key opens its detail page
DedupEntry ==
    /\ variant \in Interleaved /\ pc = "entry"
    /\ LET entry == cards_data[idx]
       IN  /\ NoteFirstSeen(Key(entry), entry.url)
           /\ IF IsDuplicate(Key(entry), seen)
              THEN /\ Advance(idx + 1, cards_data)
                   /\ details_open' = details_open
                   /\ delay' \in Pace(FALSE, idx + 1, cards_data)
              ELSE /\ pc' = "detail"
                   /\ details_open' = OpenPage(details_open)
                   /\ UNCHANGED <<idx, page_num, delay>>
    /\ UNCHANGED <<pureVars, variant, pass, cards_data, seen, results, listings,
                   unique, file, writes, attempted, skipped, failed, fetch_log>>

\* bbb, txt: the detail page could not be loaded or has no main element
DetailFails(kind) ==
    /\ variant \in Interleaved /\ pc = "detail"
    /\ LET entry == cards_data[idx]
       IN  /\ failed' = failed \cup {Key(entry)}
           /\ IF variant = "bbb" /\ kind = "nav_fail"
              THEN /\ pc' = "aborted_detail"
                   /\ UNCHANGED <<idx, page_num, seen, results, details_open, delay>>
              ELSE /\ details_open' = ClosePage(details_open)
                   /\ seen' = seen \cup {Key(entry)}
                   /\ results' = AppendResult(results, enrich_failed(entry))
                   /\ Advance(idx + 1, cards_data)
                   /\ delay' \in Pace(TRUE, idx + 1, cards_data)
    /\ UNCHANGED <<pureVars, variant, pass, cards_data, listings, unique, file,
                   writes, attempted, skipped, firstSeen, fetch_log>>

\* bbb, txt: the detail page loaded and is parsed
DetailParsed(d) ==
    /\ variant \in Interleaved /\ pc = "detail"
    /\ LET entry == cards_data[idx]
       IN  /\ details_open' = ClosePage(details_open)
           /\ seen' = seen \cup {Key(entry)}
           /\ results' = AppendResult(results, enrich_parsed(entry, d))
           /\ Advance(idx + 1, cards_data)
           /\ delay' \in Pace(TRUE, idx + 1, cards_data)
    /\ UNCHANGED <<pureVars, variant, pass, cards_data, listings, unique, file,
                   writes, attempted, skipped, failed, firstSeen, fetch_log>>

\* bbb, txt, crawl: the CSV file is opened with mode "w" and written; in bbb the
\* first copy of the body is followed by the second, which starts over
WriteCsv ==
    /\ variant \in {"bbb", "txt", "crawl"} /\ pc = "write"
    /\ file' = csv_rows(results)
    /\ writes' = writes + 1
    /\ IF variant = "bbb" /\ pass = 1
       THEN /\ pass' = 2
            /\ pc' = "list" /\ page_num' = 1
            /\ cards_data' = <<>> /\ idx' = 1
            /\ seen' = {} /\ results' = <<>>
            /\ details_open' = 0
            /\ attempted' = {} /\ skipped' = {} /\ failed' = {} /\ firstSeen' = <<>>
            /\ UNCHANGED <<listings, unique>>
       ELSE /\ pc' = "done"
            /\ UNCHANGED <<pass, page_num, cards_data, idx, seen, results, listings,
                           unique, details_open, attempted, skipped, failed, firstSeen>>
    /\ UNCHANGED <<pureVars, variant, fetch_log, delay>>

\* crawl, stage, phase 1: one list page is crawled and its items collected
CollectListPage(st, cards) ==
    /\ variant \in Batch /\ pc = "list"
    /\ attempted' = attempted \cup {page_num}
    /\ skipped' = IF st = "ok" THEN skipped ELSE skipped \cup {page_num}
    /\ fetch_log' = Append(fetch_log, page_num)
    /\ IF variant = "crawl" /\ st = "nav_fail"
       THEN /\ pc' = "aborted_list"
            /\ UNCHANGED <<page_num, listings, idx>>
       ELSE /\ listings' = listings \o cards
            /\ page_num' = page_num + 1
            /\ idx' = 1
            /\ pc' = IF page_num < MaxPage THEN "list"
                     ELSE IF listings' # <<>> THEN "dedup"
                     ELSE IF variant = "crawl" THEN "write" ELSE "return"
    /\ UNCHANGED <<pureVars, variant, pass, cards_data, seen, results, unique, file,
                   writes, details_open, failed, firstSeen, delay>>

\* crawl, stage, phase 2: one raw item is normalised and kept if its key is new
DedupListing ==
    /\ variant \in Batch /\ pc = "dedup"
    /\ LET cand == Candidate(variant, listings[idx])
       IN  /\ NoteFirstSeen(Key(cand), urljoin(BASE, cand.profile))
           /\ unique' = IF HasKey(unique, Key(cand)) THEN unique
                        ELSE Append(unique, cand)
    /\ IF idx < Len(listings)
       THEN idx' = idx + 1 /\ pc' = "dedup"
       ELSE idx' = 1 /\ pc' = "enrich"
    /\ UNCHANGED <<pureVars, variant, pass, page_num, cards_data, seen, results,
                   listings, file, writes, details_open, attempted, skipped, failed,
                   fetch_log, delay>>

\* extracted_content of a detail crawl: None when the fetch failed, an empty
\* list when no main element matched, one item otherwise
\* crawl: json.loads(det.extracted_content) or [{}], then [0]
\* stage: json.loads(det.extracted_content or "[{}]")[0]
DetailRaises(v, st) ==
    \/ v = "crawl" /\ st = "nav_fail"
    \/ v = "stage" /\ st = "no_main"

\* crawl, stage, phase 3: the profile of one candidate is crawled and merged
EnrichCandidate(st, d) ==
    /\ variant \in Batch /\ pc = "enrich"
    /\ LET cand == unique[idx]
       IN  /\ failed' = IF st = "ok" THEN failed ELSE failed \cup {Key(cand)}
           /\ IF DetailRaises(variant, st)
              THEN pc' = "aborted_detail" /\ UNCHANGED <<results, idx>>
              ELSE /\ results' = Append(results,
                          merge_detail(cand, IF st = "ok" THEN DetailDict(d) ELSE EmptyDict))
                   /\ idx' = idx + 1
                   /\ pc' = IF idx < Len(unique) THEN "enrich"
                            ELSE IF variant = "crawl" THEN "write" ELSE "return"
    /\ UNCHANGED <<pureVars, variant, pass, page_num, cards_data, seen, listings,
                   unique, file, writes, details_open, attempted, skipped, firstSeen,
                   fetch_log, delay>>

\* stage: the entries are returned to the caller; no file is written
ReturnEntries ==
    /\ variant = "stage" /\ pc = "return"
    /\ pc' = "done"
    /\ UNCHANGED <<pureVars, variant, pass, page_num, cards_data, idx, seen, results,
                   listings, unique, file, writes, details_open, histVars, delay>>

Next ==
    \/ \E kind \in ListFailures : ListPageFails(kind)
    \/ \E cards \in ListPages : ListPageParsed(cards)
    \/ DedupEntry
    \/ \E kind \in DetailFailures : DetailFails(kind)
    \/ \E d \in DetailPages : DetailParsed(d)
    \/ WriteCsv
    \/ \E st \in ListFailures : CollectListPage(st, <<>>)
    \/ \E cards \in ListPages : CollectListPage("ok", cards)
    \/ DedupListing
    \/ \E st \in DetailFailures : EnrichCandidate(st, D_bare)
    \/ \E d \in DetailPages : EnrichCandidate("ok", d)
    \/ ReturnEntries

Spec == Init /\ [][Next]_vars

(***************************************************************************)
(* Specification of normalize_phone alone: the argument is any run of at   *)
(* most MaxDigits digits with junk before, inside and after it.            *)
(***************************************************************************)
JunkStrings == SeqsUpTo(JunkChars, MaxJunk)

PhoneInputs ==
    {a \o DigitRun(k) \o b \o [i \in 1..(n - k) |-> DigitAt(k + i)] \o c :
        n \in 0..MaxDigits, k \in 0..MaxDigits,
        a \in JunkStrings, b \in JunkStrings, c \in JunkStrings}

InitPhone ==
    /\ raw \in PhoneInputs /\ out = <<>> /\ call = "pending"
    /\ ExtractIdle /\ PipelineIdle

CallNormalizePhone ==
    /\ call = "pending"
    /\ out' = normalize_phone(raw)
    /\ call' = "returned"
    /\ UNCHANGED <<raw, extractVars, pipeVars>>

NextPhone == CallNormalizePhone

SpecPhone == InitPhone /\ [][NextPhone]_vars

(***************************************************************************)
(* Specification of extract_business_cards alone.                          *)
(***************************************************************************)
ExtractInputs == SeqsUpTo(AllCards, MaxCards)

InitExtract ==
    /\ page_cards \in ExtractInputs
    /\ data = <<>>
    /\ call = "pending"
    /\ PhoneIdle /\ PipelineIdle

CallExtractBusinessCards ==
    /\ call = "pending"
    /\ data' = extract_business_cards(page_cards)
    /\ call' = "returned"
    /\ UNCHANGED <<page_cards, phoneVars, pipeVars>>

NextExtract == CallExtractBusinessCards

SpecExtract == InitExtract /\ [][NextExtract]_vars

(***************************************************************************)
(* Specification of a re-run of txt.scrape_bbb: the site is fixed, each    *)
(* list page and each profile URL serves the same thing whenever it is     *)
(* requested; the pacing sleeps are drawn anew at every step.  When the    *)
(* first invocation has ended, scrape_bbb is called again.                 *)
(***************************************************************************)
SiteListResponses ==
    {[st |-> k, cards |-> <<>>] : k \in {"nav_fail", "blocked"}}
        \cup {[st |-> "ok", cards |-> cs] : cs \in ListPages}

ProfileUrls == {extract_card(c).url : c \in ListingCards}

Served(d) == [st |-> "ok", page |-> d]
Refused(k) == [st |-> k, page |-> D_bare]

\* what the profile URLs serve: all load, none loads, or some do
DetailMaps ==
    {[u \in ProfileUrls |-> Served(D_full)],
     [u \in ProfileUrls |-> Refused("nav_fail")],
     [u \in ProfileUrls |-> IF u = BASE THEN Refused("no_main") ELSE Served(D_bare)],
     [u \in ProfileUrls |-> IF u = BASE THEN Served(D_full) ELSE Refused("nav_fail")]}

Sites == [list : [1..MaxPage -> SiteListResponses], detail : DetailMaps]

InitRerun ==
    /\ variant = "txt"
    /\ pass = 1
    /\ CrawlStart
    /\ file = <<>> /\ writes = 0
    /\ fetch_log = <<>> /\ delay = 0
    /\ site \in Sites /\ run = 1 /\ first_file = <<>>
    /\ PhoneIdle /\ ExtractIdle /\ call = "none"

\* page.goto(url_template.format(page=page_num)) against the fixed site
FetchListPage ==
    /\ pc = "list"
    /\ LET r == site.list[page_num]
       IN  IF r.st = "ok" THEN ListPageParsed(r.cards) ELSE ListPageFails(r.st)

\* detail.goto(entry["url"]) against the fixed site
FetchDetailPage ==
    /\ pc = "detail"
    /\ LET r == site.detail[cards_data[idx].url]
       IN  IF r.st = "ok" THEN DetailParsed(r.page) ELSE DetailFails(r.st)

InitialSeen_kept(prev) == prev

\* seen = set() at the start of scrape_bbb
InitialSeen(prev) == {}

\* scrape_bbb() is called again: its locals start afresh, the file of the
\* first invocation is still on disk
RunAgain ==
    /\ variant = "txt" /\ pc = "done" /\ run = 1
    /\ run' = 2
    /\ first_file' = file
    /\ pc' = "list" /\ page_num' = 1
    /\ cards_data' = <<>> /\ idx' = 1
    /\ seen' = InitialSeen(seen) /\ results' = <<>>
    /\ details_open' = 0 /\ writes' = 0
    /\ attempted' = {} /\ skipped' = {} /\ failed' = {} /\ firstSeen' = <<>>
    /\ fetch_log' = <<>>
    /\ UNCHANGED <<raw, out, page_cards, data, call, site, variant, pass, listings,
                   unique, file, delay>>

NextRerun ==
    \/ FetchListPage
    \/ DedupEntry
    \/ FetchDetailPage
    \/ WriteCsv
    \/ RunAgain

SpecRerun == InitRerun /\ [][NextRerun]_vars

(***************************************************************************)
(* Properties.                                                             *)
(***************************************************************************)
IsDigitChar(c) == c \in DigitChars

\* C1: normalize_phone returns "+1" and the digits of its argument when exactly
\* ten digits remain after the non-digits are dropped, "+" and the digits for
\* any other non-zero count, the empty string for none; the result is always a
\* string of "+" and digits.
C1_NormalizePhone ==
    call = "returned" =>
        LET d == SelectSeq(raw, IsDigitChar)
        IN  /\ Len(d) = 10 => out = <<"+", "1">> \o d
            /\ Len(d) # 10 /\ Len(d) > 0 => out = <<"+">> \o d
            /\ Len(d) = 0 => out = <<>>
            /\ \A i \in 1..Len(out) : out[i] \in DigitChars \cup {"+"}

\* C1 witness: a call returned for an argument of ten digits with junk among them
C1_Witness ==
    /\ call = "returned" /\ variant = "none"
    /\ Len(SelectSeq(raw, IsDigitChar)) = 10
    /\ Len(raw) > 10
    /\ out = <<"+", "1", "1", "2", "3", "4", "5", "6", "7", "8", "9", "0">>

RowKey(row) == <<row[1], row[2]>>

\* C2: no two records of the result collection, and no two rows of the written
\* file, have the same (name, phone) key.
C2_UniqueKeys ==
    /\ \A i, j \in 1..Len(results) : i # j => Key(results[i]) # Key(results[j])
    /\ \A i, j \in 2..Len(file) : i # j => RowKey(file[i]) # RowKey(file[j])

\* C2 witness: a page listed the same business twice, the second entry was
\* dropped and the file was written with one row for it
C2_Witness ==
    /\ variant = "txt" /\ pc = "done"
    /\ Len(cards_data) = 2 /\ Key(cards_data[1]) = Key(cards_data[2])
    /\ Len(file) = 2

Terminated == pc \in {"done", "aborted_list", "aborted_detail"}

\* what the run handed over: the rows of the file, or the entries stage returned
Output ==
    IF variant = "stage"
    THEN IF pc = "done" THEN [i \in 1..Len(results) |-> Row(results[i])] ELSE <<>>
    ELSE [i \in 1..(Len(file) - 1) |-> file[i + 1]]

\* C3: when two entries with the same (name, phone) and different profile paths
\* were met, the finished run's output holds exactly one record for the key,
\* with the URL of the entry met first, whatever happened during enrichment.
C3_FirstProfileSurvives ==
    variant \in {"txt", "crawl", "stage"} /\ Terminated =>
        \A i \in 1..Len(firstSeen) :
            firstSeen[i].dup =>
                /\ Cardinality({j \in 1..Len(Output) :
                                   RowKey(Output[j]) = firstSeen[i].key}) = 1
                /\ \A j \in 1..Len(Output) :
                       RowKey(Output[j]) = firstSeen[i].key =>
                           Output[j][4] = firstSeen[i].url

HasDefaults(r) ==
    r.principal_contact = <<>> /\ r.address = <<>> /\ r.accreditation = "Unknown"

\* C4: a candidate whose detail fetch or parse failed has a record with empty
\* principal contact, empty address and accreditation "Unknown", and the run
\* is not aborted by the failure, in each of the four pipelines.
C4_DetailFailureDegrades ==
    /\ pc # "aborted_detail"
    /\ \A k \in failed :
           \E j \in 1..Len(results) : Key(results[j]) = k /\ HasDefaults(results[j])

\* C5: a list page that ends blocked or failed does not end the run of bbb or
\* txt, and every page number after it is still attempted.
C5_FailedPageSkipped ==
    variant \in Interleaved =>
        /\ pc # "aborted_list"
        /\ \A p \in skipped :
               Terminated \/ pc = "write" => \A q \in p..MaxPage : q \in attempted

\* C6: every run of bbb, txt and crawl that has ended has written the output
\* file with its header row.
C6_OutputAlwaysProduced ==
    variant \in {"bbb", "txt", "crawl"} /\ Terminated =>
        writes >= 1 /\ Len(file) >= 1 /\ file[1] = Header

\* C7: in bbb and txt every entry of a parsed list page that the loop is done
\* with has exactly one record in the result collection, also when a failure
\* ended the processing of an entry.
C7_EveryEntryRecorded ==
    variant \in Interleaved =>
        LET n == IF pc \in {"entry", "detail"} THEN idx - 1 ELSE Len(cards_data)
        IN  \A i \in 1..n :
                Cardinality({j \in 1..Len(results) :
                                Key(results[j]) = Key(cards_data[i])}) = 1

\* C8 as stated: in every pipeline, whenever the next entry is about to be
\* deduplicated or a list page is about to be fetched, every candidate accepted
\* so far already has its record in the result collection.
C8_EnrichedImmediatelyEverywhere ==
    pc \in {"list", "entry", "dedup"} => Len(results) = Len(firstSeen)

\* C8 amended: that holds in bbb and txt; crawl and stage batch, they fetch all
\* list pages and deduplicate all items before the first detail fetch, so no
\* record exists while they list or deduplicate.
C8_EnrichedImmediately ==
    /\ variant \in Interleaved /\ pc \in {"list", "entry"} =>
           Len(results) = Len(firstSeen)
    /\ variant \in Batch /\ pc \in {"list", "dedup"} => results = <<>>

\* C8 witness: txt is about to deduplicate the second entry of a page and the
\* record of the first, whose detail fetch failed, is already appended
C8_Witness ==
    /\ variant = "txt" /\ pc = "entry" /\ idx = 2
    /\ Len(results) = 1 /\ results[1].accreditation = "Unknown"
    /\ Key(results[1]) = Key(cards_data[1])

\* C9: the output file is written once, after the crawl loop: header, then one
\* row per record of the result collection, and nothing is fetched afterwards.
C9_WrittenOnceAtEnd ==
    variant \in {"bbb", "txt", "crawl"} =>
        /\ writes <= 1
        /\ writes = 1 => pc = "done" /\ file = csv_rows(results)

P10 == <<"+", "1", "5", "5", "5", "1", "2", "3", "4", "5", "6", "7">>
P7 == <<"+", "1", "2", "3", "4", "5", "6", "7">>

\* C10: extract_business_cards returns one record per card, in order; a missing
\* heading, tel link, profile link or badge gives "", "", the base URL or
\* "Not Accredited", and the fields that are present are filled in.
C10_OneRecordPerCard ==
    call = "returned" =>
        /\ Len(data) = Len(page_cards)
        /\ \A i \in 1..Len(page_cards) :
               LET c == page_cards[i]
                   r == data[i]
               IN  /\ c.name_el = None => r.name = <<>>
                   /\ c.name_el = T_AcmePadded => r.name = T_Acme
                   /\ c.phone_el = None => r.phone = <<>>
                   /\ c.phone_el = T_Phone10 => r.phone = P10
                   /\ c.phone_el = T_Phone7 => r.phone = P7
                   /\ c.href = None => r.url = BASE
                   /\ c.href = <<"/profile/1">> =>
                          r.url = <<"https://www.bbb.org", "/profile/1">>
                   /\ c.href = <<"https://www.example.org", "/profile/2">> =>
                          r.url = c.href
                   /\ r.accreditation =
                          IF c.badge THEN "Accredited" ELSE "Not Accredited"

\* C10 witness: a page whose first card has no heading and no tel link and whose
\* second card is complete gave two records
C10_Witness ==
    /\ call = "returned" /\ variant = "none"
    /\ Len(page_cards) = 2 /\ Len(data) = 2
    /\ page_cards[1].name_el = None /\ page_cards[1].phone_el = None
    /\ data[1].name = <<>> /\ data[1].phone = <<>>
    /\ data[2].name = T_Acme /\ data[2].phone = P10

\* the candidate the deduplicator accepted for the key of record r: the first
\* entry met with that key, with the profile URL it had then
AcceptedAs(r) ==
    \E i \in 1..Len(firstSeen) :
        firstSeen[i].key = <<r.name, r.phone>> /\ firstSeen[i].url = r.url

\* C11: every record of the result collection, whether its enrichment succeeded
\* or failed, and every row of the output of a finished run, has the name, the
\* phone and the URL its candidate had when the deduplicator accepted it.
C11_EnrichmentKeepsIdentity ==
    /\ \A j \in 1..Len(results) : AcceptedAs(results[j])
    /\ pc = "done" =>
           \A j \in 1..Len(Output) :
               AcceptedAs([name |-> Output[j][1], phone |-> Output[j][2],
                           url |-> Output[j][4]])

\* C11 witness: txt finished with one record whose detail page was parsed and
\* one whose detail fetch failed, both written with the URL of their listing
C11_Witness ==
    /\ variant = "txt" /\ pc = "done" /\ Len(results) = 2 /\ Len(file) = 3
    /\ \E j, k \in 1..2 :
           /\ results[j].accreditation = "Unknown"
           /\ results[j].url = <<"https://www.bbb.org", "/profile/1">>
           /\ results[j].name = <<"A", "c", "m", "e", "B">> /\ results[j].phone = P10
           /\ file[j + 1][4] = results[j].url
           /\ results[k].principal_contact = <<"Pat">>
           /\ results[k].name = <<>> /\ results[k].phone = P7
           /\ results[k].url = BASE

\* C12: when txt.scrape_bbb is run again against the same site (the same list
\* pages, profile pages and failures per URL), whatever the pacing sleeps were,
\* the second invocation writes the rows the first wrote, in the same order.
C12_RerunSameOutput ==
    run = 2 /\ pc = "done" => file = first_file

\* C12 witness: the second invocation finished on a site with a failing list
\* page and a failing profile page and wrote the same two rows again, after
\* sleeps that differ from run to run
C12_Witness ==
    /\ run = 2 /\ pc = "done"
    /\ Len(file) = 3 /\ file = first_file
    /\ site.list[1].st = "blocked"
    /\ \E j \in 2..3 : file[j][6] = "Unknown"
    /\ delay \in PageDelay

\* C13: the records of the result collection are in first-seen order, the j-th
\* record has the key that was the j-th new key met (pages in order, entries in
\* page order), and the output of a finished run lists all of them in that order.
C13_FirstSeenOrder ==
    /\ Len(results) <= Len(firstSeen)
    /\ \A j \in 1..Len(results) : Key(results[j]) = firstSeen[j].key
    /\ pc = "done" =>
           /\ Len(Output) = Len(firstSeen)
           /\ \A j \in 1..Len(Output) : RowKey(Output[j]) = firstSeen[j].key

\* C13 witness: txt met the card without heading first, then the Acme card, then
\* the Acme card again under its other profile path, and wrote the rows in the
\* order of the first occurrences
C13_Witness ==
    /\ variant = "txt" /\ pc = "done"
    /\ Len(firstSeen) = 2 /\ firstSeen[2].dup /\ ~firstSeen[1].dup
    /\ Len(file) = 3
    /\ file[2][1] = <<>> /\ file[2][2] = P7
    /\ file[3][1] = <<"A", "c", "m", "e", "B">> /\ file[3][2] = P10

\* the raw listing item a candidate or record of stage was built from has the
\* same name, and its phone text normalises to the phone of the candidate
FromListing(r) ==
    \E k \in 1..Len(listings) :
        /\ r.name = strip(camel_split(Get(listings[k].name_el, <<>>)))
        /\ r.phone = normalize_phone(Get(listings[k].phone_el, <<>>))

\* C14: the phone stagehand._scrape computes inline for a listing, which it uses
\* in the dedup key and as the phone of the record, equals normalize_phone of
\* the raw phone text of that listing; digits that are not ten in number come
\* out as "+" followed by the digits.
C14_StagePhoneIsNormalized ==
    variant = "stage" =>
        /\ \A i \in 1..Len(unique) : FromListing(unique[i])
        /\ \A j \in 1..Len(results) : FromListing(results[j])

C16_EachPageOnce ==
    variant \in Interleaved =>
        /\ \A i, j \in 1..Len(fetch_log) : i < j => fetch_log[i] < fetch_log[j]
        /\ Terminated => fetch_log = [i \in 1..MaxPage |-> i]

=============================================================================
